---- MODULE Spec2Model ----
(***************************************************************************)
(* DS2Backup (src/dsb.py): a command-driven backup manager for one save    *)
(* file.  Strings are sequences of one-character strings, so that the      *)
(* naming scheme (strftime / strptime / Path.stem / str.partition) and the *)
(* tokenizer (shlex.split) are computed character by character.            *)
(*                                                                         *)
(* Environment assumptions (spec.md sections 5 and 6): the backup          *)
(* directory is flat (no sub-directories), no other process touches it     *)
(* while the program runs, and the names given to save are single path     *)
(* components (no path separator).                                         *)
(***************************************************************************)
EXTENDS Integers, Sequences, FiniteSets, TLC

VARIABLES files, save_file, running, pc, now, last

vars == <<files, save_file, running, pc, now, last>>

----------------------------------------------------------------------------
(* Bounds *)

\* most files the backup directory holds
MaxFiles == 2
\* the wall clock runs over the seconds 0 .. MaxSecond of one minute
MaxSecond == 1
\* most files the directory holds when the program starts
MaxInitFiles == 1

----------------------------------------------------------------------------
(* Characters and strings *)

Digits == <<"0", "1", "2", "3", "4", "5", "6", "7", "8", "9">>

\* int(c) of a decimal digit
DigitVals == [c \in {Digits[d] : d \in 1..10} |->
                 (CHOOSE d \in 1..10 : Digits[d] = c) - 1]

IsDigit(c) == c \in DOMAIN DigitVals

DigitVal(c) == DigitVals[c]

InRange(c, lo, hi) == IsDigit(c) /\ DigitVal(c) >= lo /\ DigitVal(c) <= hi

\* int(s) for a string of one or two decimal digits
IntOf(s) ==
    IF Len(s) = 1 THEN DigitVal(s[1]) ELSE 10 * DigitVal(s[1]) + DigitVal(s[2])

\* the %02d rendering strftime uses for every field of TIME_FILE_FORMAT
Pad2(n) == <<Digits[((n \div 10) % 10) + 1], Digits[(n % 10) + 1]>>

\* str(ind) of a positive int
RECURSIVE str(_)
str(n) == IF n < 10 THEN <<Digits[n + 1]>>
          ELSE str(n \div 10) \o <<Digits[(n % 10) + 1]>>

SAVE_FILE_SUFFIX == <<".", "s", "l", "2">>

EndsWith(s, suf) ==
    /\ Len(s) >= Len(suf)
    /\ SubSeq(s, Len(s) - Len(suf) + 1, Len(s)) = suf

\* positions of character c in s
Positions(s, c) == {i \in 1..Len(s) : s[i] = c}

Max(S) == CHOOSE x \in S : \A y \in S : y <= x
Min(S) == CHOOSE x \in S : \A y \in S : x <= y

\* s.partition(sep) for a one-character sep: <<before, sep, after>>
partition(s, sep) ==
    IF Positions(s, sep) = {} THEN <<s, <<>>, <<>>>>
    ELSE LET i == Min(Positions(s, sep))
         IN  <<SubSeq(s, 1, i - 1), <<sep>>, SubSeq(s, i + 1, Len(s))>>

\* Path.suffix of a file name: from the last dot, unless that dot is the
\* first or the last character
suffix(fname) ==
    IF Positions(fname, ".") = {} THEN <<>>
    ELSE LET i == Max(Positions(fname, "."))
         IN  IF i > 1 /\ i < Len(fname) THEN SubSeq(fname, i, Len(fname))
             ELSE <<>>

\* Path.stem
stem(fname) == SubSeq(fname, 1, Len(fname) - Len(suffix(fname)))

----------------------------------------------------------------------------
(* Python outcomes: a returned value or a raised exception *)

Ok(v) == [ok |-> TRUE, val |-> v]

Raise(type, args) == [ok |-> FALSE, type |-> type, args |-> args]

----------------------------------------------------------------------------
(* datetime, strftime and strptime with TIME_FILE_FORMAT = %y%m%d%H%M%S *)

datetime(Y, m, d, H, M, S, us) ==
    [year |-> Y, month |-> m, day |-> d, hour |-> H, minute |-> M,
     second |-> S, microsecond |-> us]

\* time.strftime(TIME_FILE_FORMAT): six zero-padded two-digit fields
strftime(t) ==
    Pad2(t.year % 100) \o Pad2(t.month) \o Pad2(t.day)
        \o Pad2(t.hour) \o Pad2(t.minute) \o Pad2(t.second)

\* the regular expression of directive number f (1 = %y .. 6 = %S) matches
\* the one- or two-character string x
FieldMatches(f, x) ==
    IF Len(x) = 2
    THEN CASE f = 1 -> IsDigit(x[1]) /\ IsDigit(x[2])
           [] f = 2 -> \/ x[1] = "1" /\ InRange(x[2], 0, 2)
                       \/ x[1] = "0" /\ InRange(x[2], 1, 9)
           [] f = 3 -> \/ x[1] = "3" /\ InRange(x[2], 0, 1)
                       \/ InRange(x[1], 1, 2) /\ IsDigit(x[2])
                       \/ x[1] = "0" /\ InRange(x[2], 1, 9)
                       \/ x[1] = " " /\ InRange(x[2], 1, 9)
           [] f = 4 -> \/ x[1] = "2" /\ InRange(x[2], 0, 3)
                       \/ InRange(x[1], 0, 1) /\ IsDigit(x[2])
           [] f = 5 -> InRange(x[1], 0, 5) /\ IsDigit(x[2])
           [] f = 6 -> \/ x[1] = "6" /\ InRange(x[2], 0, 1)
                       \/ InRange(x[1], 0, 5) /\ IsDigit(x[2])
    ELSE CASE f = 1 -> FALSE
           [] f \in {2, 3} -> InRange(x[1], 1, 9)
           [] OTHER -> IsDigit(x[1])

NoMatch == << <<"nomatch">> >>

\* the fields matched so far, x, put before the match of the rest
MatchCons(x, rest) == IF rest = NoMatch THEN NoMatch ELSE <<x>> \o rest

\* the first alternative that leads to a match
MatchFirst(two, one) == IF two # NoMatch THEN two ELSE one

\* the backtracking match of directives f..6 against s from position pos:
\* every directive tries its two-character alternatives before the
\* one-character one; the result is the matched fields, or NoMatch
RECURSIVE Match(_, _, _)
MatchAlt(s, pos, f, n) ==
    IF pos + n - 1 <= Len(s) /\ FieldMatches(f, SubSeq(s, pos, pos + n - 1))
    THEN MatchCons(SubSeq(s, pos, pos + n - 1), Match(s, pos + n, f + 1))
    ELSE NoMatch

Match(s, pos, f) ==
    IF f > 6 THEN <<>>
    ELSE MatchFirst(MatchAlt(s, pos, f, 2), MatchAlt(s, pos, f, 1))

\* a field as matched, without the blank of the " [1-9]" day alternative
Strip(x) == IF Len(x) = 2 /\ x[1] = " " THEN <<x[2]>> ELSE x

IsLeap(Y) == Y % 4 = 0 /\ (Y % 100 # 0 \/ Y % 400 = 0)

DaysIn(Y, m) ==
    IF m = 2 THEN (IF IsLeap(Y) THEN 29 ELSE 28)
    ELSE IF m \in {4, 6, 9, 11} THEN 30 ELSE 31

\* the pivot of %y: 69..99 are 1969..1999, 00..68 are 2000..2068
Century(yy) == IF yy >= 69 THEN 1900 + yy ELSE 2000 + yy

\* what strptime makes of the match fs of the string s: the "unconverted
\* data remains" test and the range checks of datetime()
strptime_fields(s, fs) ==
    IF fs = NoMatch
    THEN Raise("ValueError", << <<"time data does not match format">> >>)
    ELSE IF Len(fs[1]) + Len(fs[2]) + Len(fs[3])
              + Len(fs[4]) + Len(fs[5]) + Len(fs[6]) # Len(s)
    THEN Raise("ValueError", << <<"unconverted data remains">> >>)
    ELSE IF IntOf(Strip(fs[3])) > DaysIn(Century(IntOf(fs[1])), IntOf(fs[2]))
    THEN Raise("ValueError", << <<"day is out of range for month">> >>)
    ELSE IF IntOf(fs[6]) > 59
    THEN Raise("ValueError", << <<"second must be in 0..59">> >>)
    ELSE Ok(datetime(Century(IntOf(fs[1])), IntOf(fs[2]), IntOf(Strip(fs[3])),
                     IntOf(fs[4]), IntOf(fs[5]), IntOf(fs[6]), 0))

\* datetime.strptime(s, TIME_FILE_FORMAT)
strptime(s) == strptime_fields(s, Match(s, 1, 1))

----------------------------------------------------------------------------
(* Backup: one backup file, identified by its file name in the directory *)

None == <<"None">>

\* the name taken after the last dash of the stem
Backup_name_rpartition(path) ==
    IF Positions(stem(path), "-") = {} THEN <<>>
    ELSE SubSeq(stem(path), Max(Positions(stem(path), "-")) + 1, Len(stem(path)))

\* Backup.name
Backup_name(path) == partition(stem(path), "-")[3]

\* Backup.time
Backup_time(path) == strptime(partition(stem(path), "-")[1])

\* Backup.__init__ and Backup.check: the directory holds regular files
\* only, so what is left of check is the evaluation of self.time
Backup_check(path, time) == IF time.ok THEN Ok(path) ELSE time

Backup(path) == Backup_check(path, Backup_time(path))

----------------------------------------------------------------------------
(* The file system: the backup directory is a sequence of files in the    *)
(* order the directory scan returns them; the save file is its content    *)

Contents == {"A", "B"}

Index(fs, fname) == {i \in 1..Len(fs) : fs[i].name = fname}

Exists(fs, fname) == Index(fs, fname) # {}

ContentOf(fs, fname) == fs[CHOOSE i \in Index(fs, fname) : TRUE].content

InsertAt(fs, pos, f) == SubSeq(fs, 1, pos - 1) \o <<f>> \o SubSeq(fs, pos, Len(fs))

RemoveAt(fs, i) == SubSeq(fs, 1, i - 1) \o SubSeq(fs, i + 1, Len(fs))

\* the content c is written to the file fname: an existing file is
\* overwritten in place, a new one appears at slot pos of the scan order
WriteFile(fs, fname, c, pos) ==
    IF Exists(fs, fname)
    THEN [i \in 1..Len(fs) |-> IF fs[i].name = fname
                               THEN [name |-> fname, content |-> c] ELSE fs[i]]
    ELSE InsertAt(fs, IF pos <= Len(fs) + 1 THEN pos ELSE Len(fs) + 1,
                  [name |-> fname, content |-> c])

\* a system state, as the handlers see it
State(fs, sf, run) == [files |-> fs, save_file |-> sf, running |-> run]

\* the result of a handler: what it returns or raises, and the state left
Result(out, st) == [out |-> out, st |-> st]

\* copy_file(save_file.path, backup.path), under the I/O outcome io
Backup_save(st, path, io, pos) ==
    CASE io = "ok" ->
           Result(Ok(None),
                  [st EXCEPT !.files = WriteFile(st.files, path, st.save_file, pos)])
      [] io = "denied" ->
           Result(Raise("PermissionError", << <<"13">>, <<"Permission denied">> >>), st)

\* the copy with source and destination exchanged
Backup_load_swapped(st, path, io) ==
    IF io = "ok"
    THEN Result(Ok(None), [st EXCEPT !.files = WriteFile(st.files, path, st.save_file, 1)])
    ELSE Result(Raise("PermissionError", << <<"13">>, <<"Permission denied">> >>), st)

\* copy_file(backup.path, save_file.path)
Backup_load(st, path, io) ==
    IF ~Exists(st.files, path)
    THEN Result(Raise("FileNotFoundError", << <<"2">>, <<"No such file or directory">> >>), st)
    ELSE CASE io = "ok" ->
                Result(Ok(None), [st EXCEPT !.save_file = ContentOf(st.files, path)])
           [] io = "denied" ->
                Result(Raise("PermissionError", << <<"13">>, <<"Permission denied">> >>), st)

\* delete_file(backup.path): Path.unlink
Backup_delete(st, path, io) ==
    IF ~Exists(st.files, path)
    THEN Result(Raise("FileNotFoundError", << <<"2">>, <<"No such file or directory">> >>), st)
    ELSE IF io = "ok"
    THEN Result(Ok(None),
                [st EXCEPT !.files =
                     RemoveAt(st.files, CHOOSE i \in Index(st.files, path) : TRUE)])
    ELSE Result(Raise("PermissionError", << <<"13">>, <<"Permission denied">> >>), st)

----------------------------------------------------------------------------
(* BackupDir *)

\* the scan going on after a file whose name Backup() rejects
RECURSIVE backups_from_skipping(_, _)
backups_from_skipping(fs, i) ==
    IF i > Len(fs) THEN <<>>
    ELSE IF ~EndsWith(fs[i].name, SAVE_FILE_SUFFIX) THEN backups_from_skipping(fs, i + 1)
    ELSE IF ~Backup(fs[i].name).ok THEN backups_from_skipping(fs, i + 1)
    ELSE <<fs[i].name>> \o backups_from_skipping(fs, i + 1)

\* BackupDir.backups: the files the glob of *.sl2 returns, in scan order,
\* up to the first one whose name Backup() rejects
RECURSIVE backups_from(_, _)
backups_from(fs, i) ==
    IF i > Len(fs) THEN <<>>
    ELSE IF ~EndsWith(fs[i].name, SAVE_FILE_SUFFIX) THEN backups_from(fs, i + 1)
    ELSE IF ~Backup(fs[i].name).ok THEN <<>>
    ELSE <<fs[i].name>> \o backups_from(fs, i + 1)

\* the listing made by the scan that goes on after a rejected file
backups_skipping(fs) == backups_from_skipping(fs, 1)

backups(fs) == backups_from(fs, 1)

\* the loop of find keeping the first backup in the loop variable
RECURSIVE find_loop_first(_, _, _, _)
find_loop_first(bs, ind, selector, acc) ==
    IF ind > Len(bs) THEN acc
    ELSE find_loop_first(bs, ind + 1, selector,
            [backup    |-> IF acc.backup = None THEN bs[ind] ELSE acc.backup,
             ind_match |-> IF str(ind) = selector THEN bs[ind] ELSE acc.ind_match,
             str_match |-> IF Backup_name(bs[ind]) = selector THEN bs[ind]
                           ELSE acc.str_match])

\* the loop of find keeping the first backup of the name
RECURSIVE find_loop_first_name(_, _, _, _)
find_loop_first_name(bs, ind, selector, acc) ==
    IF ind > Len(bs) THEN acc
    ELSE find_loop_first_name(bs, ind + 1, selector,
            [backup    |-> bs[ind],
             ind_match |-> IF str(ind) = selector THEN bs[ind] ELSE acc.ind_match,
             str_match |-> IF Backup_name(bs[ind]) = selector /\ acc.str_match = None
                           THEN bs[ind] ELSE acc.str_match])

\* the loop of find with the backups numbered from 0
RECURSIVE find_loop_zero_based(_, _, _, _)
find_loop_zero_based(bs, ind, selector, acc) ==
    IF ind > Len(bs) THEN acc
    ELSE find_loop_zero_based(bs, ind + 1, selector,
            [backup    |-> bs[ind],
             ind_match |-> IF str(ind - 1) = selector THEN bs[ind] ELSE acc.ind_match,
             str_match |-> IF Backup_name(bs[ind]) = selector THEN bs[ind]
                           ELSE acc.str_match])

\* the loop of BackupDir.find from index ind on; acc holds the loop
\* variable and the two matches
RECURSIVE find_loop(_, _, _, _)
find_loop(bs, ind, selector, acc) ==
    IF ind > Len(bs) THEN acc
    ELSE find_loop(bs, ind + 1, selector,
            [backup    |-> bs[ind],
             ind_match |-> IF str(ind) = selector THEN bs[ind] ELSE acc.ind_match,
             str_match |-> IF Backup_name(bs[ind]) = selector THEN bs[ind]
                           ELSE acc.str_match])

\* the end of find with the name match taking precedence
find_return_name_first(selector, r) ==
    IF selector = <<>> /\ r.backup # None THEN Ok(r.backup)
    ELSE IF selector # <<>> /\ r.str_match # None THEN Ok(r.str_match)
    ELSE IF selector # <<>> /\ r.ind_match # None THEN Ok(r.ind_match)
    ELSE Raise("BackupNotFoundError", <<selector>>)

\* the end of find returning the loop variable for every selector
find_return_last(selector, r) ==
    IF r.backup # None THEN Ok(r.backup)
    ELSE Raise("BackupNotFoundError", <<selector>>)

\* the statements of BackupDir.find after the loop; r holds the loop
\* variable and the two matches
find_return(selector, r) ==
    IF selector = <<>> /\ r.backup # None THEN Ok(r.backup)
    ELSE IF selector # <<>> /\ r.ind_match # None THEN Ok(r.ind_match)
    ELSE IF selector # <<>> /\ r.str_match # None THEN Ok(r.str_match)
    ELSE Raise("BackupNotFoundError", <<selector>>)

\* BackupDir.find
find(fs, selector) ==
    find_return(selector,
                find_loop(backups(fs), 1, selector,
                          [backup |-> None, ind_match |-> None, str_match |-> None]))

\* create with the dash written also before an empty name
create_dash(name, time) ==
    Backup(strftime(time) \o <<"-">> \o (IF name = None THEN <<>> ELSE name)
               \o SAVE_FILE_SUFFIX)

\* BackupDir.create; name None stands for an omitted name, time is the time
\* given or, when save omits it, datetime.now()
create(name, time) ==
    LET nm == IF name = None THEN <<>> ELSE name
        time_str == strftime(time)
    IN  Backup(time_str \o (IF nm # <<>> THEN <<"-">> ELSE <<>>) \o nm
                   \o SAVE_FILE_SUFFIX)

----------------------------------------------------------------------------
(* Text output.  A returned string is the sequence of its pieces: literal *)
(* text is one piece, computed text is one piece per character            *)

Spaces(k) == [i \in 1..k |-> " "]

Truncate(s, w) == IF Len(s) > w THEN SubSeq(s, 1, w) ELSE s

\* '{: >w.w}', '{: ^w.w}' and '{: <w.w}' of str.format
FormatRight(s, w) == Spaces(w - Len(Truncate(s, w))) \o Truncate(s, w)

FormatCenter(s, w) ==
    LET t == Truncate(s, w)
        l == (w - Len(t)) \div 2
    IN  Spaces(l) \o t \o Spaces(w - Len(t) - l)

FormatLeft(s, w) == Truncate(s, w) \o Spaces(w - Len(Truncate(s, w)))

\* fstring.format(a, b, c) with fstring = '{: >3.3} {: ^19.19}    {: <32.32}'
fstring_format(a, b, c) ==
    FormatRight(a, 3) \o <<" ">> \o FormatCenter(b, 19)
        \o <<" ", " ", " ", " ">> \o FormatLeft(c, 32)

Pad4(n) == Pad2(n \div 100) \o Pad2(n % 100)

\* time.strftime(TIME_DISPLAY_FORMAT), %Y/%m/%d %H:%M:%S
strftime_display(t) ==
    Pad4(t.year) \o <<"/">> \o Pad2(t.month) \o <<"/">> \o Pad2(t.day) \o <<" ">>
        \o Pad2(t.hour) \o <<":">> \o Pad2(t.minute) \o <<":">> \o Pad2(t.second)

\* sep.join(strs)
RECURSIVE join(_, _)
join(sep, strs) ==
    IF strs = <<>> THEN <<>>
    ELSE IF Len(strs) = 1 THEN strs[1]
    ELSE strs[1] \o sep \o join(sep, Tail(strs))

----------------------------------------------------------------------------
(* CommandHandler *)

\* the row list prints for the i-th enumerated backup
list_row(i, path) ==
    fstring_format(str(i) \o <<".">>, strftime_display(Backup_time(path).val),
                   Backup_name(path))

\* CommandHandler.list, bs being tuple(self.backup_dir.backups)
list_of(st, bs) ==
    IF bs = <<>> THEN Result(Ok(<<"No backups found">>), st)
    ELSE Result(Ok(join(<<"\n">>,
             << <<"Num    Creation time       Name                            ">>,
                <<"___ ___________________    ________________________________">> >>
             \o [i \in 1..Len(bs) |-> list_row(i, bs[i])])), st)

list(st) == list_of(st, backups(st.files))

\* the return of a handler after its copy or delete: r is the outcome of
\* the copy or delete, text and backup make the confirmation
confirm(r, text, backup) ==
    IF ~r.out.ok THEN r ELSE Result(Ok(<<text>> \o Backup_name(backup)), r.st)

\* CommandHandler.save, backup being self.backup_dir.create(selector)
save_to(st, backup, io, pos) ==
    IF ~backup.ok THEN Result(backup, st)
    ELSE confirm(Backup_save(st, backup.val, io, pos), "Saved backup ", backup.val)

save(st, selector, time, io, pos) == save_to(st, create(selector, time), io, pos)

\* CommandHandler.load, backup being self.backup_dir.find(selector)
load_from(st, backup, io) ==
    IF ~backup.ok THEN Result(backup, st)
    ELSE confirm(Backup_load(st, backup.val, io), "Loaded backup ", backup.val)

load(st, selector, io) == load_from(st, find(st.files, selector), io)

\* CommandHandler.delete, backup being self.backup_dir.find(selector)
delete_of(st, backup, io) ==
    IF ~backup.ok THEN Result(backup, st)
    ELSE confirm(Backup_delete(st, backup.val, io), "Deleted backup ", backup.val)

\* delete without its selector
delete_last(st, selector, io) == delete_of(st, find(st.files, <<>>), io)

delete(st, selector, io) == delete_of(st, find(st.files, selector), io)

\* CommandHandler.quit
quit(st) == Result(Ok(<<"Quitting...">>), [st EXCEPT !.running = FALSE])

W_list   == <<"l", "i", "s", "t">>
W_ls     == <<"l", "s">>
W_save   == <<"s", "a", "v", "e">>
W_load   == <<"l", "o", "a", "d">>
W_delete == <<"d", "e", "l", "e", "t", "e">>
W_del    == <<"d", "e", "l">>
W_quit   == <<"q", "u", "i", "t">>
W_q      == <<"q">>

\* the commands registered under their first alias only
commands_unaliased ==
    << [aliases |-> {W_list},   fun |-> "list",   params |-> 0],
       [aliases |-> {W_save},   fun |-> "save",   params |-> 1],
       [aliases |-> {W_load},   fun |-> "load",   params |-> 1],
       [aliases |-> {W_delete}, fun |-> "delete", params |-> 1],
       [aliases |-> {W_quit},   fun |-> "quit",   params |-> 0] >>

\* Command.commands, in the order of the decorators; params is the number
\* of positional parameters fun takes besides self
commands ==
    << [aliases |-> {W_list, W_ls},    fun |-> "list",   params |-> 0],
       [aliases |-> {W_save},          fun |-> "save",   params |-> 1],
       [aliases |-> {W_load},          fun |-> "load",   params |-> 1],
       [aliases |-> {W_delete, W_del}, fun |-> "delete", params |-> 1],
       [aliases |-> {W_quit, W_q},     fun |-> "quit",   params |-> 0] >>

\* the call with the handler of a command that takes a selector run on
\* it before the surplus arguments are refused
call_unchecked(command, st, args, time, io, pos) ==
    LET selector == IF args = <<>> THEN <<>> ELSE args[1]
        r == CASE command.fun = "list"   -> list(st)
               [] command.fun = "save"   -> save(st, selector, time, io, pos)
               [] command.fun = "load"   -> load(st, selector, io)
               [] command.fun = "delete" -> delete(st, selector, io)
               [] command.fun = "quit"   -> quit(st)
    IN  IF Len(args) > command.params
        THEN Result(Raise("TypeError", << <<command.fun, "() takes too many arguments">> >>),
                    IF command.params = 0 THEN st ELSE r.st)
        ELSE r

\* command.fun(self, *args): the call binds the arguments (a TypeError when
\* there are too many; a missing selector takes its default '')
call(command, st, args, time, io, pos) ==
    IF Len(args) > command.params
    THEN Result(Raise("TypeError",
                      << <<command.fun,
                            IF command.params = 0
                            THEN "() takes 1 positional argument but "
                            ELSE "() takes from 1 to 2 positional arguments but ">>
                           \o str(Len(args) + 1) \o <<" were given">> >>), st)
    ELSE LET selector == IF args = <<>> THEN <<>> ELSE args[1]
         IN  CASE command.fun = "list"   -> list(st)
               [] command.fun = "save"   -> save(st, selector, time, io, pos)
               [] command.fun = "load"   -> load(st, selector, io)
               [] command.fun = "delete" -> delete(st, selector, io)
               [] command.fun = "quit"   -> quit(st)

\* CommandHandler.execute(*argv): cmd takes its default '' when argv is empty
execute(st, argv, time, io, pos) ==
    LET cmd  == IF argv = <<>> THEN <<>> ELSE Head(argv)
        args == IF argv = <<>> THEN <<>> ELSE Tail(argv)
        hits == {k \in 1..Len(commands) : cmd \in commands[k].aliases}
    IN  IF hits # {} THEN call(commands[Min(hits)], st, args, time, io, pos)
        ELSE Result(Raise("UnknownModeError", <<cmd>>), st)

\* a handler that catches the program's own exception classes only
ExceptionClasses_own == {"BackupNotFoundError", "UnknownModeError"}

\* the classes `except Exception` catches, among those the program raises
ExceptionClasses ==
    {"ValueError", "TypeError", "OSError", "PermissionError", "FileNotFoundError",
     "BackupNotFoundError", "UnknownModeError"}

\* the except clause of execute_safe, r being the outcome of execute
except(r) ==
    IF r.out.ok THEN r
    ELSE IF r.out.type \in ExceptionClasses
    THEN Result(Ok(join(<<": ">>, << <<r.out.type>> >> \o r.out.args)), r.st)
    ELSE r

\* CommandHandler.execute_safe
execute_safe(st, argv, time, io, pos) == except(execute(st, argv, time, io, pos))

----------------------------------------------------------------------------
(* shlex.split over the characters of the model: blank, double quote and  *)
(* word characters (no single quote, backslash or comment character)      *)

\* the scanner of shlex in POSIX mode from position i on; state is " "
\* between tokens, "a" inside a word and the quote character inside quotes
RECURSIVE shlex_scan(_, _, _, _, _)
shlex_scan(line, i, state, token, acc) ==
    IF i > Len(line)
    THEN IF state = "\"" THEN Raise("ValueError", << <<"No closing quotation">> >>)
         ELSE IF state = "a" THEN Ok(Append(acc, token))
         ELSE Ok(acc)
    ELSE LET c == line[i]
         IN  CASE state = " " ->
                    IF c = " " THEN shlex_scan(line, i + 1, " ", <<>>, acc)
                    ELSE IF c = "\"" THEN shlex_scan(line, i + 1, "\"", <<>>, acc)
                    ELSE shlex_scan(line, i + 1, "a", <<c>>, acc)
               [] state = "a" ->
                    IF c = " " THEN shlex_scan(line, i + 1, " ", <<>>, Append(acc, token))
                    ELSE IF c = "\"" THEN shlex_scan(line, i + 1, "\"", token, acc)
                    ELSE shlex_scan(line, i + 1, "a", Append(token, c), acc)
               [] state = "\"" ->
                    IF c = "\"" THEN shlex_scan(line, i + 1, "a", token, acc)
                    ELSE shlex_scan(line, i + 1, "\"", Append(token, c), acc)

\* shlex.split(line)
shlex_split(line) == shlex_scan(line, 1, " ", <<>>, <<>>)

----------------------------------------------------------------------------
(* Inputs *)

A == <<"a">>
One == <<"1">>
Two == <<"2">>

\* the token lists tried: every alias, a word that is no alias, no
\* argument, a name, an index, one argument too many
Argvs ==
    { <<W_list>>, <<W_ls>>,
      <<W_save>>, <<W_save, A>>, <<W_save, A, A>>,
      <<W_load>>, <<W_load, A>>, <<W_load, One>>, <<W_load, Two>>,
      <<W_delete>>, <<W_del>>, <<W_delete, A>>, <<W_del, Two>>,
      <<W_quit>>, <<W_q>>, <<W_quit, A>>,
      <<<<"x">>>> }

\* lines that need the tokenizer: empty, blank, padded, quoted, empty quoted
\* argument, unbalanced quote
OddLines ==
    { <<>>, <<" ">>, <<" ">> \o W_ls \o <<" ">>,
      W_save \o <<" ", "\"", "a", "\"">>,
      W_load \o <<" ", "\"", "\"">>,
      W_save \o <<" ", "\"", "a">>,
      W_q \o <<"\"">> }

\* the lines the user types
Lines == {join(<<" ">>, argv) : argv \in Argvs} \cup OddLines

\* the outcomes of the underlying copy or delete: done, or refused by the
\* operating system before anything is written
IOs == {"ok", "denied"}

\* the I/O outcomes and directory slots that matter to a token list: the
\* slot to a save, the outcome to a save, load or delete
Inputs(argv) ==
    LET cmd == IF argv = <<>> THEN <<>> ELSE Head(argv)
    IN  {x \in IOs \X (1..MaxFiles) :
           /\ x[1] = "ok" \/ cmd \in {W_save, W_load, W_delete, W_del}
           /\ x[2] = 1 \/ cmd = W_save}

\* datetime.now(): the seconds of the wall clock
Clock(k) == datetime(2025, 2, 3, 4, 5, 6 + k, 250000)

\* the files found in the directory when the program starts: a backup made
\* in an earlier run, a file with the suffix but no timestamp, and a file
\* without the suffix
OldFiles_backup ==
    strftime(datetime(2024, 12, 31, 23, 59, 59, 0)) \o <<"-", "a">> \o SAVE_FILE_SUFFIX

OldFiles ==
    { [name |-> OldFiles_backup, content |-> "B"],
      [name |-> <<"b", "a", "d">> \o SAVE_FILE_SUFFIX, content |-> "B"],
      [name |-> <<"n", ".", "t", "x", "t">>, content |-> "B"] }

RECURSIVE SeqsUpTo(_, _)
SeqsUpTo(S, n) ==
    IF n = 0 THEN {<<>>}
    ELSE SeqsUpTo(S, n - 1)
           \cup {Append(q, x) : q \in {p \in SeqsUpTo(S, n - 1) : Len(p) = n - 1}, x \in S}

DistinctNames(fs) == \A i, j \in 1..Len(fs) : fs[i].name = fs[j].name => i = j

InitDirs == {fs \in SeqsUpTo(OldFiles, MaxInitFiles) : DistinctNames(fs)}

----------------------------------------------------------------------------
(* The program *)

\* last holds the locals of the command in progress: where it came from,
\* inp (the tokens, or the failure of the tokenizer) and res (what
\* execute_safe returned); NoLast when no command is in progress
NoLast == [op |-> "none", argv |-> Ok(<<>>), res |-> Ok(None)]

\* after SaveFile(), BackupDir() and CommandHandler() in main
Init ==
    /\ files \in InitDirs
    /\ save_file \in Contents
    /\ running = None
    /\ pc = "main"
    /\ now = Clock(0)
    /\ last = NoLast

Here == State(files, save_file, running)

Install(st) ==
    /\ files' = st.files
    /\ save_file' = st.save_file
    /\ running' = st.running

\* shlex.split of every line the user types
Tokens == [line \in Lines |-> shlex_split(line)]

\* a command executed: the state it leaves, the place the program goes on
\* at, and the locals
Executing(op, inp, r, goes) ==
    /\ Len(r.st.files) <= MaxFiles
    /\ Install(r.st)
    /\ pc' = IF r.out.ok THEN goes ELSE "crashed"
    /\ last' = [op |-> op, argv |-> inp, res |-> r.out]

\* the tokenizer failed in loop
Crashing(inp) ==
    /\ pc' = "crashed"
    /\ last' = [op |-> "loop", argv |-> inp, res |-> inp]
    /\ UNCHANGED <<files, save_file, running>>

\* main with arguments: print(cmd_handler.execute_safe(sys.argv[1:]))
OneShot ==
    /\ pc = "main"
    /\ \E argv \in Argvs : \E x \in Inputs(argv) :
         Executing("oneshot", Ok(argv), execute_safe(Here, argv, now, x[1], x[2]),
                   "exited")
    /\ UNCHANGED now

\* main without arguments, up to the first test of the while loop
LoopEnter ==
    /\ pc = "main"
    /\ running' = TRUE
    /\ pc' = "read"
    /\ UNCHANGED <<files, save_file, now, last>>

\* the first two statements of the loop body: a line is read and split,
\* and the tokens are executed
LoopExecute ==
    /\ pc = "read"
    /\ \E line \in Lines :
         IF ~Tokens[line].ok THEN Crashing(Tokens[line])
         ELSE \E x \in Inputs(Tokens[line].val) :
                Executing("loop", Tokens[line],
                          execute_safe(Here, Tokens[line].val, now, x[1], x[2]),
                          "print")
    /\ UNCHANGED now

\* out_func(res) and the test of self.running that follows
LoopPrint ==
    /\ pc = "print"
    /\ pc' = IF running = TRUE THEN "read" ELSE "exited"
    /\ last' = NoLast
    /\ UNCHANGED <<files, save_file, running, now>>

\* the wall clock advances while the program waits for a line
Tick ==
    /\ pc = "read"
    /\ \E k \in 0..MaxSecond : Clock(k).second > now.second /\ now' = Clock(k)
    /\ UNCHANGED <<files, save_file, running, pc, last>>

\* the game writes the save file while the program waits for a line
GameWrite ==
    /\ pc = "read"
    /\ \E c \in Contents : c # save_file /\ save_file' = c
    /\ UNCHANGED <<files, running, pc, now, last>>

Next == OneShot \/ LoopEnter \/ LoopExecute \/ LoopPrint \/ Tick \/ GameWrite

Spec == Init /\ [][Next]_vars

----------------------------------------------------------------------------
(* BackupDir.find applied to a directory: the directory is drawn from the *)
(* files of a pool, the selector from Selectors                           *)

\* most files of a directory find is applied to
MaxDirFiles == 3

Stamp(k) == strftime(Clock(k))

\* backups named a (twice), 2, 1 and unnamed, a file with the suffix but no
\* timestamp, and a file without the suffix
PoolNames ==
    { strftime(datetime(2024, 12, 31, 23, 59, 59, 0)) \o <<"-", "a">> \o SAVE_FILE_SUFFIX,
      Stamp(0) \o <<"-", "a">> \o SAVE_FILE_SUFFIX,
      Stamp(0) \o <<"-", "2">> \o SAVE_FILE_SUFFIX,
      Stamp(1) \o <<"-", "1">> \o SAVE_FILE_SUFFIX,
      Stamp(1) \o SAVE_FILE_SUFFIX,
      <<"b", "a", "d">> \o SAVE_FILE_SUFFIX,
      <<"n", ".", "t", "x", "t">> }

\* the backups of second 1 hold the content B, the other files A
PoolFiles ==
    {[name |-> n, content |-> IF Len(n) >= 12 /\ SubSeq(n, 1, 12) = Stamp(1)
                                 THEN "B" ELSE "A"] :
        n \in PoolNames}

Dirs == {fs \in SeqsUpTo(PoolFiles, MaxDirFiles) : DistinctNames(fs)}

Selectors == {<<>>, <<"0">>, One, Two, <<"3">>, <<"4">>, A, <<"b">>}

FindInit ==
    /\ files \in Dirs
    /\ save_file = "A"
    /\ running = None
    /\ pc = "find"
    /\ now = Clock(0)
    /\ last = NoLast

\* backup_dir.find(selector)
Find ==
    /\ pc = "find"
    /\ \E selector \in Selectors :
         last' = [op |-> "find", argv |-> Ok(<<selector>>), res |-> find(files, selector)]
    /\ pc' = "found"
    /\ UNCHANGED <<files, save_file, running, now>>

\* cmd_handler.load(selector)
FindLoad ==
    /\ pc = "find"
    /\ \E selector \in Selectors :
         /\ Install(load(Here, selector, "ok").st)
         /\ last' = [op |-> "load", argv |-> Ok(<<selector>>),
                     res |-> load(Here, selector, "ok").out]
    /\ pc' = "found"
    /\ UNCHANGED now

\* cmd_handler.delete(selector)
FindDelete ==
    /\ pc = "find"
    /\ \E selector \in Selectors :
         /\ Install(delete(Here, selector, "ok").st)
         /\ last' = [op |-> "delete", argv |-> Ok(<<selector>>),
                     res |-> delete(Here, selector, "ok").out]
    /\ pc' = "found"
    /\ UNCHANGED now

\* cmd_handler.list()
FindList ==
    /\ pc = "find"
    /\ last' = [op |-> "list", argv |-> Ok(<< <<>> >>), res |-> list(Here).out]
    /\ pc' = "found"
    /\ UNCHANGED <<files, save_file, running, now>>

FindNext == Find \/ FindLoad \/ FindDelete \/ FindList

SpecFind == FindInit /\ [][FindNext]_vars

----------------------------------------------------------------------------
(* The naming scheme: create(name, time), then Backup.save, then a new    *)
(* listing, for names and times drawn from NamingNames and NamingTimes    *)

\* no name, the empty name, and names with a dash and a dot
NamingNames == {None, <<>>, A, <<"a", "-", "b">>, <<"a", ".", "b">>}

\* times around both ends of the years %y can tell apart, with one- and
\* two-digit fields, with and without microseconds
NamingTimes ==
    {datetime(Y, f[1], f[2], f[3], f[4], f[5], us) :
        Y \in {1968, 1969, 2025, 2068, 2069},
        f \in {<<2, 3, 4, 5, 6>>, <<12, 31, 23, 59, 59>>},
        us \in {0, 250000}}

NamingInit ==
    /\ files \in InitDirs
    /\ save_file \in Contents
    /\ running = None
    /\ pc = "naming"
    /\ now = Clock(0)
    /\ last = NoLast

\* backup = backup_dir.create(name, time)
NamingCreate ==
    /\ pc = "naming"
    /\ \E name \in NamingNames, time \in NamingTimes :
         last' = [op |-> "create", argv |-> Ok(<<name, time>>), res |-> create(name, time)]
    /\ pc' = "created"
    /\ UNCHANGED <<files, save_file, running, now>>

\* backup.save(save_file)
NamingSave ==
    /\ pc = "created"
    /\ last.res.ok
    /\ \E pos \in 1..MaxFiles :
         /\ Install(Backup_save(Here, last.res.val, "ok", pos).st)
         /\ Len(files') <= MaxFiles
    /\ pc' = "saved"
    /\ UNCHANGED <<now, last>>

\* tuple(backup_dir.backups)
NamingList ==
    /\ pc = "saved"
    /\ last' = [op |-> "listed", argv |-> Ok(Append(last.argv.val, last.res.val)),
                res |-> Ok(backups(files))]
    /\ pc' = "listed"
    /\ UNCHANGED <<files, save_file, running, now>>

NamingNext == NamingCreate \/ NamingSave \/ NamingList

SpecNaming == NamingInit /\ [][NamingNext]_vars

----------------------------------------------------------------------------
(* CommandHandler.execute applied to a handler state: the first token is  *)
(* drawn from DispatchCmds, the arguments from DispatchArgs              *)

\* every alias, the empty token, a word that is no alias, a prefix of an
\* alias, an alias in upper case and an alias followed by a blank
DispatchCmds ==
    { W_list, W_ls, W_save, W_load, W_delete, W_del, W_quit, W_q,
      <<>>, <<"x">>, <<"l", "i", "s">>, <<"L", "S">>, <<"q", " ">> }

\* no argument, a name, an index, two arguments
DispatchArgs == { <<>>, <<A>>, <<One>>, <<A, A>> }

\* execute() without arguments, and execute(cmd, *args)
DispatchArgvs == {<<>>} \cup {<<cmd>> \o args : cmd \in DispatchCmds, args \in DispatchArgs}

\* the handler of main before or inside loop
DispatchInit ==
    /\ files \in InitDirs
    /\ save_file \in Contents
    /\ (running = None \/ running = TRUE)
    /\ pc = "dispatch"
    /\ now = Clock(0)
    /\ last = NoLast

\* cmd_handler.execute(*argv)
Dispatch ==
    /\ pc = "dispatch"
    /\ \E argv \in DispatchArgvs : \E x \in Inputs(argv) :
         LET r == execute(Here, argv, now, x[1], x[2])
         IN  /\ Install(r.st)
             /\ last' = [op |-> "execute", argv |-> Ok(argv), res |-> r.out, io |-> x]
    /\ pc' = "dispatched"
    /\ UNCHANGED now

DispatchNext == Dispatch

SpecDispatch == DispatchInit /\ [][DispatchNext]_vars

----------------------------------------------------------------------------
(* The timestamp of a file name: time.strftime(TIME_FILE_FORMAT) of       *)
(* create applied to two times drawn from SortTimes                       *)

\* times on both sides of a change of century, with low and high values of
\* every field, with and without microseconds
SortTimes ==
    {datetime(Y, m, d, H, 5, S, us) :
        Y \in {1999, 2000, 2025}, m \in {2, 11}, d \in {3, 28}, H \in {4, 23},
        S \in {6, 59}, us \in {0, 250000}}

SortInit ==
    /\ files = <<>>
    /\ save_file = "A"
    /\ running = None
    /\ pc = "sort"
    /\ now = Clock(0)
    /\ last = NoLast

\* time_str = time.strftime(TIME_FILE_FORMAT), for two times
Encode ==
    /\ pc = "sort"
    /\ \E t1 \in SortTimes, t2 \in SortTimes :
         last' = [op |-> "strftime", argv |-> Ok(<<t1, t2>>),
                  res |-> Ok(<<strftime(t1), strftime(t2)>>)]
    /\ pc' = "sorted"
    /\ UNCHANGED <<files, save_file, running, now>>

SortNext == Encode

SpecSort == SortInit /\ [][SortNext]_vars

----------------------------------------------------------------------------
(* A save followed by writes of the game, listings and loads: the name is *)
(* drawn from RtNames, the directory from RtDirs; last keeps the name     *)
(* saved, the content the save file had then, whether save returned, and  *)
(* whether the game has written the save file since                       *)

\* a name, a name that is also an index, and no name
RtNames == {A, One, <<>>}

\* the files found: backups named a and 1, an unnamed backup and a file
\* with the suffix but no timestamp
RtFiles ==
    {f \in PoolFiles :
        f.name \in { OldFiles_backup,
                      Stamp(1) \o <<"-", "1">> \o SAVE_FILE_SUFFIX,
                      Stamp(1) \o SAVE_FILE_SUFFIX,
                      <<"b", "a", "d">> \o SAVE_FILE_SUFFIX }}

RtDirs == {fs \in SeqsUpTo(RtFiles, MaxInitFiles + 1) : DistinctNames(fs)}

RtInit ==
    /\ files \in RtDirs
    /\ save_file \in Contents
    /\ running = None
    /\ pc = "roundtrip"
    /\ now = Clock(0)
    /\ last = NoLast

\* cmd_handler.save(name)
RtSave ==
    /\ pc = "roundtrip"
    /\ \E name \in RtNames, x \in IOs \X (1..(MaxInitFiles + 2)) :
         /\ Install(save(Here, name, now, x[1], x[2]).st)
         /\ last' = [op |-> "save", argv |-> Ok(<<name>>),
                     res |-> save(Here, name, now, x[1], x[2]).out,
                     saved |-> [name |-> name, content |-> save_file,
                                ok |-> save(Here, name, now, x[1], x[2]).out.ok],
                     written |-> FALSE]
    /\ pc' = IF last'.saved.ok THEN "saved" ELSE "failed"
    /\ UNCHANGED now

\* the game writes the save file
RtWrite ==
    /\ pc = "saved"
    /\ \E c \in Contents : c # save_file /\ save_file' = c
    /\ last' = [last EXCEPT !.op = "write", !.argv = Ok(<<>>), !.res = Ok(None),
                            !.written = TRUE]
    /\ UNCHANGED <<files, running, pc, now>>

\* cmd_handler.list()
RtList ==
    /\ pc = "saved"
    /\ last' = [last EXCEPT !.op = "list", !.argv = Ok(<<>>), !.res = list(Here).out]
    /\ UNCHANGED <<files, save_file, running, pc, now>>

\* cmd_handler.load(selector)
RtLoad ==
    /\ pc = "saved"
    /\ \E selector \in RtNames, io \in IOs :
         /\ Install(load(Here, selector, io).st)
         /\ last' = [last EXCEPT !.op = "load", !.argv = Ok(<<selector>>),
                                 !.res = load(Here, selector, io).out]
    /\ UNCHANGED <<pc, now>>

RtNext == RtSave \/ RtWrite \/ RtList \/ RtLoad

SpecRoundTrip == RtInit /\ [][RtNext]_vars

----------------------------------------------------------------------------
(* What a step did *)

\* the tokens executed last, and their parts
Argv == last.argv.val
Cmd == IF Argv = <<>> THEN <<>> ELSE Head(Argv)
Arg == IF Len(Argv) >= 2 THEN Argv[2] ELSE <<>>

\* a command has been executed by execute_safe
Executed == last.op \in {"loop", "oneshot"} /\ last.argv.ok

\* execute_safe returned a string that starts with the piece text
Says(text) == Executed /\ last.res.ok /\ last.res.val # <<>> /\ last.res.val[1] = text

\* this step executes a command
Executes == pc \in {"main", "read"} /\ pc' # pc /\ last'.op \in {"loop", "oneshot"}

----------------------------------------------------------------------------
(* Claims *)

\* C1: execute_safe never raises: whatever the tokens (none, no alias, too
\* many arguments) and whatever the failure of find, copy or delete, it
\* returns a string.
C1_ExecuteSafeReturns == Executed => last.res.ok

\* a copy or delete refused by the operating system came back as a string
C1_Witness == Executed /\ Says("PermissionError")

\* C2: the interactive loop never ends by a propagated failure, whatever
\* line is read.
C2_LoopNeverCrashes == last.op = "loop" => pc # "crashed"

\* C3: for a non-empty selector find returns the backup whose 1-based
\* enumeration index is the selector, also when another backup has the
\* selector as its name; without an index match, a backup of that name;
\* without either, BackupNotFound(selector).
C3_IndexBeforeName ==
    (last.op = "find" /\ Argv[1] # <<>>) =>
        LET bs == backups(files)
            byInd == {i \in 1..Len(bs) : str(i) = Argv[1]}
            byName == {i \in 1..Len(bs) : Backup_name(bs[i]) = Argv[1]}
        IN  /\ byInd # {} => last.res.ok /\ \E i \in byInd : last.res.val = bs[i]
            /\ (byInd = {} /\ byName # {}) =>
                   last.res.ok /\ \E i \in byName : last.res.val = bs[i]
            /\ (byInd = {} /\ byName = {}) =>
                   last.res = Raise("BackupNotFoundError", <<Argv[1]>>)

\* the selector is the index of one backup and the name of another
C3_Witness ==
    /\ last.op = "find"
    /\ Argv[1] # <<>>
    /\ LET bs == backups(files)
       IN  \E i, j \in 1..Len(bs) :
              i # j /\ str(i) = Argv[1] /\ Backup_name(bs[j]) = Argv[1]
                    /\ Backup_name(bs[i]) # Argv[1] /\ last.res = Ok(bs[i])

\* C4: find('') fails with BackupNotFound when the listing yields nothing,
\* and otherwise returns the backup enumerated last, whatever its
\* timestamp or name.
C4_EmptySelectorLast ==
    (last.op = "find" /\ Argv[1] = <<>>) =>
        LET bs == backups(files)
        IN  IF bs = <<>> THEN last.res = Raise("BackupNotFoundError", << <<>> >>)
            ELSE last.res = Ok(bs[Len(bs)])

\* the backup enumerated last is returned although an earlier one is newer
C4_Witness ==
    /\ last.op = "find"
    /\ Argv[1] = <<>>
    /\ LET bs == backups(files)
       IN  /\ Len(bs) >= 2
           /\ last.res = Ok(bs[Len(bs)])
           /\ Backup_time(bs[Len(bs)]).val.year < Backup_time(bs[1]).val.year

\* the name and the time given to create, and the path of the backup made
GivenName == IF Argv[1] = None THEN <<>> ELSE Argv[1]
GivenTime == Argv[2]
CreatedPath == Argv[3]

\* the new listing yields the backup made, and its name and time are the
\* name given and the time given cut to whole seconds
RoundTrip ==
    \E i \in 1..Len(last.res.val) :
        /\ last.res.val[i] = CreatedPath
        /\ Backup_name(last.res.val[i]) = GivenName
        /\ Backup_time(last.res.val[i]) = Ok([GivenTime EXCEPT !.microsecond = 0])

\* every .sl2 file the scan returns before the backup made has a timestamp
ScanReaches(path) ==
    \A i \in 1..Len(files) :
        (EndsWith(files[i].name, SAVE_FILE_SUFFIX)
            /\ i < Min(Index(files, path))) => Backup_time(files[i].name).ok

\* C5 as stated: for every name and time, create(name, time), then the
\* capture of the save file, then a new listing yield a Backup with the
\* name given and the time given cut to whole seconds.
C5_RoundTripAlways == pc = "listed" => RoundTrip

\* C5 amended: the round trip holds for the times whose year is in
\* 1969..2068, when no .sl2 file without a valid timestamp is enumerated
\* before the new backup.
C5_RoundTripWithinCentury ==
    (pc = "listed" /\ GivenTime.year \in 1969..2068 /\ ScanReaches(CreatedPath))
        => RoundTrip

\* a name with a dash and a time with microseconds came back from a
\* directory that held another backup
C5_Witness ==
    /\ pc = "listed"
    /\ GivenTime.year \in 1969..2068
    /\ GivenTime.microsecond # 0
    /\ GivenName = <<"a", "-", "b">>
    /\ Len(last.res.val) = 2
    /\ RoundTrip

\* C6 as stated: a backup file is never overwritten: a file that exists
\* before and after a step has the same content, and a successful save
\* writes a file that did not exist before it.
C6_NeverOverwritten ==
    [][/\ \A i \in 1..Len(files) : \A j \in 1..Len(files') :
             files[i].name = files'[j].name => files[i].content = files'[j].content
       /\ (Executes /\ Says("Saved backup ")') => Len(files') = Len(files) + 1]_vars

\* C7: after a successful delete(selector) the backup find(selector)
\* resolved to is yielded by no later listing; every other file of the
\* directory and the save file are as before.
C7_DeleteRemoves ==
    [][(Executes /\ Says("Deleted backup ")') =>
          \E b \in {find(files, Arg')}, bs \in {backups(files')} :
              /\ b.ok
              /\ \A i \in 1..Len(bs) : bs[i] # b.val
              /\ ~Exists(files', b.val)
              /\ files' = RemoveAt(files, Min(Index(files, b.val)))
              /\ save_file' = save_file]_vars

\* a backup selected by name was deleted and another file is still there
C7_Witness ==
    /\ pc = "print"
    /\ Says("Deleted backup ")
    /\ Arg = A
    /\ Len(files) = 1

\* C8: save(name) at time t leaves a file named by t in the form
\* yymmddHHMMSS, then '-' and the name when the name is not empty, then
\* .sl2; its content is the save file's, the save file is as before and
\* the confirmation names the backup.
C8_SaveCreates ==
    [][(Executes /\ Says("Saved backup ")') =>
          LET fname == strftime(now) \o (IF Arg' # <<>> THEN <<"-">> \o Arg' ELSE <<>>)
                           \o SAVE_FILE_SUFFIX
          IN  /\ Exists(files', fname)
              /\ ContentOf(files', fname) = save_file
              /\ save_file' = save_file
              /\ last'.res.val = <<"Saved backup ">> \o Arg'
              /\ (now = datetime(2025, 2, 3, 4, 5, 6, 250000) /\ Arg' = A) =>
                     fname = <<"2", "5", "0", "2", "0", "3", "0", "4", "0", "5", "0", "6",
                               "-", "a", ".", "s", "l", "2">>
              /\ (now = datetime(2025, 2, 3, 4, 5, 7, 250000) /\ Arg' = <<>>) =>
                     fname = <<"2", "5", "0", "2", "0", "3", "0", "4", "0", "5", "0", "7",
                               ".", "s", "l", "2">>]_vars

\* save without a name left the file 250203040507.sl2
C8_Witness ==
    /\ pc = "print"
    /\ Says("Saved backup ")
    /\ Argv = <<W_save>>
    /\ Exists(files, <<"2", "5", "0", "2", "0", "3", "0", "4", "0", "5", "0", "7",
                       ".", "s", "l", "2">>)

\* C9: after a successful load(selector) the save file has the content of
\* the backup find(selector) resolves to, the directory is as before and
\* the confirmation contains that backup's name.
C9_LoadRestores ==
    [][(Executes /\ Says("Loaded backup ")') =>
          \E b \in {find(files, Arg')} :
              /\ b.ok
              /\ save_file' = ContentOf(files, b.val)
              /\ files' = files
              /\ last'.res.val = <<"Loaded backup ">> \o Backup_name(b.val)]_vars

\* a load by index changed the save file
C9_Witness ==
    /\ pc = "print"
    /\ Says("Loaded backup ")
    /\ Arg = Two
    /\ Len(files) = 2
    /\ save_file = files[2].content
    /\ save_file # files[1].content

\* C10 as stated: the loop starts Running; a line read takes it to Stopped
\* exactly when the line is quit or q alone; after every other line it is
\* Running and reads another line; Stopped is terminal.
C10_StateMachine ==
    [][/\ (pc = "main" /\ pc' = "read") => running' = TRUE
       /\ (pc = "read" /\ last'.op = "loop") =>
              /\ pc' = "print"
              /\ running' = ~(last'.argv.ok /\ last'.argv.val \in {<<W_quit>>, <<W_q>>})
       /\ pc = "print" => pc' = IF running = TRUE THEN "read" ELSE "exited"
       /\ pc = "exited" => pc' = "exited"]_vars

\* the aliases registered
Aliases == {W_list, W_ls, W_save, W_load, W_delete, W_del, W_quit, W_q}

\* the first alias of the command a token names
FirstAlias(cmd) ==
    CASE cmd = W_ls -> W_list
      [] cmd = W_del -> W_delete
      [] cmd = W_q -> W_quit
      [] OTHER -> cmd

\* what the handler named cmd does with the selector of args
Handler(cmd, st, args, time, io, pos) ==
    LET selector == IF args = <<>> THEN <<>> ELSE args[1]
    IN  CASE cmd = W_list   -> list(st)
          [] cmd = W_save   -> save(st, selector, time, io, pos)
          [] cmd = W_load   -> load(st, selector, io)
          [] cmd = W_delete -> delete(st, selector, io)
          [] cmd = W_quit   -> quit(st)

\* the arguments a handler accepts
Accepts(cmd, args) == Len(args) <= IF cmd \in {W_list, W_quit} THEN 0 ELSE 1

\* C11: execute(cmd, args) fails with UnknownCommand(cmd) exactly when cmd
\* is none of list, ls, save, load, delete, del, quit, q; otherwise it does
\* what the command registered under cmd does: ls what list does, del what
\* delete does, q what quit does, in every state and for every argument
\* list.
C11_Dispatch ==
    [][(pc = "dispatch" /\ pc' = "dispatched") =>
          LET argv == last'.argv.val
              cmd == IF argv = <<>> THEN <<>> ELSE Head(argv)
              args == IF argv = <<>> THEN <<>> ELSE Tail(argv)
              r == Result(last'.res, State(files', save_file', running'))
          IN  /\ (~r.out.ok /\ r.out.type = "UnknownModeError") <=> cmd \notin Aliases
              /\ cmd \notin Aliases =>
                     /\ r.out.args = <<cmd>>
                     /\ r.st = Here
              /\ cmd \in Aliases =>
                     /\ r = execute(Here, <<FirstAlias(cmd)>> \o args, now,
                                     last'.io[1], last'.io[2])
                     /\ Accepts(FirstAlias(cmd), args) =>
                            r = Handler(FirstAlias(cmd), Here, args, now,
                                        last'.io[1], last'.io[2])]_vars

\* del a deleted the backup named a
C11_Witness ==
    /\ pc = "dispatched"
    /\ last.argv.val = <<W_del, A>>
    /\ last.res.ok
    /\ last.res.val = <<"Deleted backup ", "a">>
    /\ files = <<>>

\* the fields of a time down to the second
Seconds(t) == <<t.year, t.month, t.day, t.hour, t.minute, t.second>>

\* the order of two sequences of numbers, first difference first
RECURSIVE Before(_, _)
Before(a, b) ==
    IF b = <<>> THEN FALSE
    ELSE IF a = <<>> THEN TRUE
    ELSE IF Head(a) # Head(b) THEN Head(a) < Head(b)
    ELSE Before(Tail(a), Tail(b))

\* the lexicographic order of two strings of digits
LexBefore(a, b) ==
    Before([i \in 1..Len(a) |-> DigitVal(a[i])], [i \in 1..Len(b) |-> DigitVal(b[i])])

\* C12 as stated: of two times t1 < t2 at second resolution, the encoded
\* string of t1 is lexicographically smaller than the encoded string of t2.
C12_SortsChronologically ==
    (pc = "sorted" /\ Before(Seconds(Argv[1]), Seconds(Argv[2]))) =>
        LexBefore(last.res.val[1], last.res.val[2])

\* the names of the .sl2 files of a directory, in enumeration order
Sl2Names(fs) ==
    SelectSeq([i \in 1..Len(fs) |-> fs[i].name], LAMBDA n : EndsWith(n, SAVE_FILE_SUFFIX))

\* the stem of a file name starts with a valid timestamp: what precedes
\* its first dash is a time in the form yymmddHHMMSS
HasTimestamp(n) == strptime(partition(stem(n), "-")[1]).ok

\* the .sl2 files that precede the first one without a valid timestamp
BeforeFirstBad(fs) ==
    LET ns == Sl2Names(fs)
    IN  SubSeq(ns, 1, Min({i \in 1..Len(ns) : ~HasTimestamp(ns[i])} \cup {Len(ns) + 1}) - 1)

\* list has been executed
Listed == Executed /\ Argv \in {<<W_list>>, <<W_ls>>}

\* C13: the enumeration of the backups yields, in enumeration order, the
\* .sl2 files that precede the first one without a valid timestamp prefix
\* and nothing else; it ends there without a failure; every listing scans
\* the directory as it is then.
C13_ListingStopsAtFirstBad ==
    /\ backups(files) = BeforeFirstBad(files)
    /\ Listed =>
          /\ last.res.ok
          /\ last.res = list_of(Here, BeforeFirstBad(files)).out

\* a listing made after a save shows the new backup and not the file
\* without a timestamp behind it
C13_Witness ==
    /\ Listed
    /\ Len(files) = 2
    /\ HasTimestamp(files[1].name)
    /\ files[1].name # OldFiles_backup
    /\ EndsWith(files[2].name, SAVE_FILE_SUFFIX)
    /\ ~HasTimestamp(files[2].name)
    /\ Len(backups(files)) = 1

\* the rows of the listing of a directory, as list prints them
ListRows(fs) ==
    [i \in 1..Len(backups(fs)) |-> list_row(i, backups(fs)[i])]

\* C14: when the listing yields n backups, find(str(i)) for i in 1..n
\* returns the i-th backup yielded, the one list shows in row i; for i
\* outside 1..n find(str(i)) returns no backup by its index: it fails with
\* BackupNotFound or returns a backup named str(i).
C14_IndexIsEnumerationOrder ==
    (last.op = "find") =>
        LET bs == backups(files)
        IN  \A i \in 0..(MaxDirFiles + 1) :
               Argv[1] = str(i) =>
                  IF i \in 1..Len(bs)
                  THEN /\ last.res = Ok(bs[i])
                       /\ list_row(i, last.res.val) = ListRows(files)[i]
                       /\ list(Here) =
                              list_of(Here, [j \in 1..Len(bs) |-> find(files, str(j)).val])
                  ELSE \/ last.res = Raise("BackupNotFoundError", <<str(i)>>)
                       \/ /\ last.res.ok
                          /\ Backup_name(last.res.val) = str(i)

\* find('2') returned the second of three backups, which is not named 2
C14_Witness ==
    /\ last.op = "find"
    /\ Argv[1] = Two
    /\ Len(backups(files)) = 3
    /\ last.res = Ok(backups(files)[2])
    /\ Backup_name(backups(files)[2]) # Two

\* C15: a command that fails because its first token is no command, because
\* it has too many arguments or because find fails with BackupNotFound
\* leaves the save file, the backup files and their contents, and the
\* running flag as they were.
C15_FailedCommandsChangeNothing ==
    [][(/\ Executes
        /\ last'.argv.ok
        /\ last'.res.ok
        /\ last'.res.val # <<>>
        /\ last'.res.val[1] \in {"UnknownModeError", "TypeError", "BackupNotFoundError"})
       => (/\ save_file' = save_file
           /\ files' = files
           /\ running' = running)]_vars

\* quit with an argument was refused and the loop is still running beside
\* a backup
C15_Witness ==
    /\ pc = "print"
    /\ Says("TypeError")
    /\ Argv = <<W_quit, A>>
    /\ running = TRUE
    /\ Len(backups(files)) = 1

\* the .sl2 files enumerated after the first one without a valid timestamp
BehindFirstBad(fs) ==
    {Sl2Names(fs)[k] : k \in (Len(BeforeFirstBad(fs)) + 2)..Len(Sl2Names(fs))}

\* C16: when a .sl2 file without a valid timestamp prefix is enumerated
\* before a backup file B, no selector makes find, load or delete resolve
\* to B, list does not show B, and find with the empty selector returns the
\* last backup enumerated before that file, or fails with BackupNotFound
\* when there is none.
C16_BehindBadUnreachable ==
    [][(pc = "find" /\ pc' = "found" /\ BehindFirstBad(files) # {}) =>
          LET reach == BeforeFirstBad(files)
              behind == BehindFirstBad(files)
              selector == last'.argv.val[1]
              res == last'.res
          IN  /\ last'.op = "find" =>
                    /\ res.ok => res.val \notin behind
                    /\ selector = <<>> =>
                           res = IF reach = <<>>
                                 THEN Raise("BackupNotFoundError", << <<>> >>)
                                 ELSE Ok(reach[Len(reach)])
              /\ last'.op = "load" =>
                    /\ files' = files
                    /\ res.ok =>
                          \E k \in 1..Len(reach) :
                             /\ res.val = <<"Loaded backup ">> \o Backup_name(reach[k])
                             /\ save_file' = ContentOf(files, reach[k])
                    /\ ~res.ok => save_file' = save_file
              /\ last'.op = "delete" =>
                    /\ \A B \in behind :
                          Exists(files', B) /\ ContentOf(files', B) = ContentOf(files, B)
                    /\ res.ok =>
                          \E k \in 1..Len(reach) :
                             /\ res.val = <<"Deleted backup ">> \o Backup_name(reach[k])
                             /\ ~Exists(files', reach[k])
              /\ last'.op = "list" => res = list_of(Here, reach).out]_vars

\* delete a found no backup although a backup named a lies behind a file
\* without a timestamp
C16_Witness ==
    /\ pc = "found"
    /\ last.op = "delete"
    /\ last.res = Raise("BackupNotFoundError", <<A>>)
    /\ \E B \in BehindFirstBad(files) : HasTimestamp(B) /\ Backup_name(B) = A

\* C17: a non-empty selector that is the index of no enumerated backup and
\* the name of several makes find return the one of them enumerated last,
\* wherever the one with the latest timestamp is.
C17_LastOfDuplicateNames ==
    (last.op = "find" /\ pc = "found" /\ Argv[1] # <<>>) =>
        LET bs == backups(files)
            named == {i \in 1..Len(bs) : Backup_name(bs[i]) = Argv[1]}
        IN  ((\A i \in 1..Len(bs) : str(i) # Argv[1]) /\ Cardinality(named) >= 2) =>
               /\ last.res.ok
               /\ last.res.val = bs[Max(named)]
               /\ \A i \in named : i # Max(named) => last.res.val # bs[i]

\* of two backups named a the one enumerated last was returned, although
\* the first is the newer one
C17_Witness ==
    /\ last.op = "find"
    /\ Argv[1] = A
    /\ LET bs == backups(files)
       IN  /\ Len(bs) = 3
           /\ Backup_name(bs[1]) = A
           /\ Backup_name(bs[3]) = A
           /\ last.res = Ok(bs[3])
           /\ Backup_time(bs[3]).val.year < Backup_time(bs[1]).val.year

\* the name is not the empty string, is the index of no backup listed and
\* the name of one backup only, and every .sl2 file has a valid timestamp
RoundTripNeeds(fs, name) ==
    /\ name # <<>>
    /\ \A i \in 1..Len(backups(fs)) : str(i) # name
    /\ Cardinality({i \in 1..Len(Sl2Names(fs)) :
                       HasTimestamp(Sl2Names(fs)[i])
                          /\ Backup_name(Sl2Names(fs)[i]) = name}) = 1
    /\ \A i \in 1..Len(Sl2Names(fs)) : HasTimestamp(Sl2Names(fs)[i])

\* save(name) has returned, and later load(name) has
LoadedSaved ==
    /\ pc = "saved"
    /\ last.saved.ok
    /\ last.op = "load"
    /\ Argv[1] = last.saved.name

\* C18: after a save(name) with a non-empty name that is no index of the
\* resulting listing and the name of no other backup, in a directory whose
\* .sl2 files all parse, and after any writes of the save file, listings
\* and loads, load(name) gives the save file the content it had when
\* save(name) was executed, unless the operating system refuses the copy.
C18_SaveLoadRoundTrip ==
    (LoadedSaved /\ RoundTripNeeds(files, last.saved.name)) =>
        IF last.res.ok
        THEN /\ save_file = last.saved.content
             /\ last.res.val = <<"Loaded backup ">> \o last.saved.name
        ELSE last.res.type = "PermissionError"

\* load a restored the save file the game had written after save a, beside
\* another backup
C18_Witness ==
    /\ LoadedSaved
    /\ last.res.ok
    /\ Argv[1] = A
    /\ RoundTripNeeds(files, A)
    /\ last.written
    /\ Len(backups(files)) = 2
    /\ save_file = last.saved.content
    /\ \E i \in 1..2 : files[i].content # last.saved.content

====
